---- MODULE Spec2Model ----
(***************************************************************************)
(* Model of the epic estimator (src/index.ts): the scoring engine          *)
(* (estimate, roundUpToFib), the sequential and parallel aggregators       *)
(* (calculateEpicEstimate, calculateParallelEstimate) and the worker       *)
(* collection step (addDevelopers).                                        *)
(*                                                                         *)
(* JavaScript numbers are IEEE-754 binary64.  Every number the program     *)
(* computes here is zero or has a magnitude in [2^-16, 2^16), so it is a   *)
(* whole multiple of 2^-68.  A number is therefore modelled exactly as the *)
(* integer count of units of 2^-68, kept in three limbs of 28 bits         *)
(* [a, b, c] = a*2^56 + b*2^28 + c, and every arithmetic operation rounds  *)
(* its exact result to 53 significant bits, ties to even, as the hardware  *)
(* does.                                                                   *)
(***************************************************************************)
EXTENDS Integers, Sequences, FiniteSets, TLC

VARIABLES pc, n, factors, result, prev, tasks, developers, epicEstimate,
          parallelEstimate, run

vars == <<pc, n, factors, result, prev, tasks, developers, epicEstimate,
          parallelEstimate, run>>

(***************************************************************************)
(* binary64 arithmetic on non-negative magnitudes                          *)
(***************************************************************************)
Limb == 2^28

Zero == [a |-> 0, b |-> 0, c |-> 0]

\* carry propagation of limbs that may have grown past 28 bits
Norm(a, b, c) ==
    LET b1 == b + (c \div Limb)
    IN  [a |-> a + (b1 \div Limb), b |-> b1 % Limb, c |-> c % Limb]

\* the integer k (0 <= k < 2^16) as a number: k * 2^68 = (k * 2^12) * 2^56
FromInt(k) == [a |-> k * 4096, b |-> 0, c |-> 0]

Lt(x, y) ==
    \/ x.a < y.a
    \/ x.a = y.a /\ x.b < y.b
    \/ x.a = y.a /\ x.b = y.b /\ x.c < y.c

Leq(x, y) == x = y \/ Lt(x, y)

\* number of significant bits of a limb, and of a number
\* (of v < 2^w, by halving the width w)
RECURSIVE LenBits(_, _)
LenBits(v, w) ==
    IF w = 1 THEN v
    ELSE LET h == w \div 2
         IN  IF v >= 2^h THEN h + LenBits(v \div 2^h, w - h) ELSE LenBits(v, h)

Len28(v) == LenBits(v, 28)

BitLen(x) ==
    IF x.a > 0 THEN 56 + Len28(x.a)
    ELSE IF x.b > 0 THEN 28 + Len28(x.b)
    ELSE Len28(x.c)

\* Round x (plus, when sticky, a non-zero fraction of a unit below it) to 53
\* significant bits, to nearest, ties to even.  s is the number of low bits
\* dropped; it never exceeds 31, because every value is below 2^16.
Round53(x, sticky) ==
    LET s == BitLen(x) - 53
    IN  IF s <= 0 THEN x
        ELSE IF s <= 27 THEN
            LET q    == 2^s
                r    == x.c % q
                half == q \div 2
                odd  == ((x.c \div q) % 2) = 1
                up   == r > half \/ (r = half /\ (sticky \/ odd))
            IN  Norm(x.a, x.b, (x.c - r) + (IF up THEN q ELSE 0))
        ELSE
            LET q    == 2^(s - 28)
                r    == x.b % q
                half == q \div 2
                odd  == ((x.b \div q) % 2) = 1
                up   == IF q = 1
                        THEN x.c > Limb \div 2
                             \/ (x.c = Limb \div 2 /\ (sticky \/ odd))
                        ELSE r > half
                             \/ (r = half /\ (x.c > 0 \/ sticky \/ odd))
            IN  Norm(x.a, (x.b - r) + (IF up THEN q ELSE 0), 0)

\* x + y of two numbers
Add(x, y) == Round53(Norm(x.a + y.a, x.b + y.b, x.c + y.c), FALSE)

\* v * x for an integer-valued v in 0..7
Mul(v, x) == Round53(Norm(v * x.a, v * x.b, v * x.c), FALSE)

\* x - y for x >= y
Sub(x, y) ==
    LET c1 == x.c - y.c
        bc == IF c1 < 0 THEN 1 ELSE 0
        b1 == x.b - y.b - bc
        bb == IF b1 < 0 THEN 1 ELSE 0
    IN  [a |-> x.a - y.a - bb, b |-> b1 + bb * Limb, c |-> c1 + bc * Limb]

\* One step of binary long division per remaining bit i: the quotient q gains
\* the next bit of r / d.  Here for small integers r < d < 2^17 ...
RECURSIVE DecBits(_, _, _, _)
DecBits(q, r, d, i) ==
    IF i = 0 THEN [q |-> q, r |-> r]
    ELSE LET bit == IF 2 * r >= d THEN 1 ELSE 0
             q2  == Norm(2 * q.a, 2 * q.b, 2 * q.c + bit)
         IN  IF q2.c >= 0 THEN DecBits(q2, 2 * r - bit * d, d, i - 1)
             ELSE [q |-> q2, r |-> r]

\* The binary64 value of the decimal m / d (m, d integers, d a power of ten):
\* the exact quotient to 68 fractional bits, then rounded.  This is how a
\* numeric literal and a parsed decimal string become a number.
DecToNum(m, d) ==
    LET e == DecBits([a |-> 0, b |-> 0, c |-> m \div d], m % d, d, 68)
    IN  Round53(e.q, e.r # 0)

\* ... and here for a number r < y: y is at least 2^52 units.
RECURSIVE DivBits(_, _, _, _)
DivBits(q, r, y, i) ==
    IF i = 0 THEN [q |-> q, r |-> r]
    ELSE LET r2  == Norm(2 * r.a, 2 * r.b, 2 * r.c)
             bit == IF Lt(r2, y) THEN 0 ELSE 1
             q2  == Norm(2 * q.a, 2 * q.b, 2 * q.c + bit)
         IN  IF q2.c >= 0
             THEN DivBits(q2, IF bit = 1 THEN Sub(r2, y) ELSE r2, y, i - 1)
             ELSE [q |-> q2, r |-> r2]

\* p / y for an integer-valued p in 0..4095 and a number y > 0: the exact
\* quotient p * 2^136 / y in units of 2^-68, rounded.  p * 2^40 is below y,
\* so the first 40 quotient bits are zero and the division starts there.
DivExact(p, y) ==
    LET e == DivBits(Zero, [a |-> 0, b |-> p * 4096, c |-> 0], y, 96)
    IN  Round53(e.q, e.r # Zero)

\* Math.floor and Math.ceil of a non-negative number, as integers
Floor(x) == x.a \div 4096

Ceil(x) == Floor(x) + (IF x.a % 4096 = 0 /\ x.b = 0 /\ x.c = 0 THEN 0 ELSE 1)

(***************************************************************************)
(* Factor model and scoring engine                                         *)
(***************************************************************************)
FIB_NUMS == <<1, 2, 3, 5, 8>>

\* the keys of WEIGHTS in declaration order, which is the order in which
\* createTask fills factors and in which Object.entries enumerates them
KEYS == <<"uncertainty", "complexity", "testability", "legacyImpact",
          "integrationDifficulty", "refactorEffort", "dependencies",
          "requirementVolatility">>

KeySet == {KEYS[i] : i \in 1..Len(KEYS)}

WEIGHTS ==
    [uncertainty           |-> DecToNum(8, 10),
     complexity            |-> DecToNum(6, 10),
     testability           |-> DecToNum(4, 10),
     legacyImpact          |-> DecToNum(5, 10),
     integrationDifficulty |-> DecToNum(7, 10),
     refactorEffort        |-> DecToNum(4, 10),
     dependencies          |-> DecToNum(5, 10),
     requirementVolatility |-> DecToNum(4, 10)]

\* n < f in place of n <= f
roundUpToFibStrict(x) ==
    IF Lt(x, FromInt(1)) THEN 1
    ELSE IF Lt(x, FromInt(2)) THEN 2
    ELSE IF Lt(x, FromInt(3)) THEN 3
    ELSE IF Lt(x, FromInt(5)) THEN 5
    ELSE 8

\* the scale continued above 8 in place of the cap
roundUpToFibUncapped(x) ==
    IF Leq(x, FromInt(1)) THEN 1
    ELSE IF Leq(x, FromInt(2)) THEN 2
    ELSE IF Leq(x, FromInt(3)) THEN 3
    ELSE IF Leq(x, FromInt(5)) THEN 5
    ELSE IF Leq(x, FromInt(8)) THEN 8
    ELSE 13

\* the first unit of the scale returned after the loop in place of the cap
roundUpToFibWrapped(x) ==
    IF Leq(x, FromInt(1)) THEN 1
    ELSE IF Leq(x, FromInt(2)) THEN 2
    ELSE IF Leq(x, FromInt(3)) THEN 3
    ELSE IF Leq(x, FromInt(5)) THEN 5
    ELSE IF Leq(x, FromInt(8)) THEN 8
    ELSE 1

RECURSIVE roundUpToFibFrom(_, _)
roundUpToFibFrom(x, i) ==
    IF i > Len(FIB_NUMS) THEN 8
    ELSE IF Leq(x, FromInt(FIB_NUMS[i])) THEN FIB_NUMS[i]
    ELSE roundUpToFibFrom(x, i + 1)

roundUpToFib(x) == roundUpToFibFrom(x, 1)

\* value * WEIGHTS[key] for the four values a rating can hold (a definition
\* without parameters is evaluated once, so the products are not recomputed
\* for every rating)
PRODUCTS == [k \in KeySet |-> [v \in 0..3 |-> Mul(v, WEIGHTS[k])]]

\* the reduce over Object.entries(factors): sum + value * WEIGHTS[key], from 0
RECURSIVE rawScoreUpTo(_, _)
rawScoreUpTo(f, i) ==
    IF i = 0 THEN Zero
    ELSE Add(rawScoreUpTo(f, i - 1), PRODUCTS[KEYS[i]][f[KEYS[i]]])

estimate(f) ==
    LET rawScore == rawScoreUpTo(f, Len(KEYS))
    IN  [rawScore |-> rawScore, fibonacciEstimate |-> roundUpToFib(rawScore)]

FibSet == {FIB_NUMS[i] : i \in 1..Len(FIB_NUMS)}

Ratings == [KeySet -> 0..3]

NoResult == [rawScore |-> Zero, fibonacciEstimate |-> 0]

NoEstimate == [totalPoints |-> 0, estimatedDays |-> 0, estimatedDeliveryDate |-> 0]

NoParallel == [totalDays |-> 0, deliveryDate |-> 0, breakdown |-> <<>>]

\* main and createTask before they have run.  category, assignedTo, notes and
\* key (the number of the rating prompt reached) are locals of createTask;
\* rejected and message are the last entry the rating loop turned down and
\* the line it logged for it; addingTasks is main's loop variable; error is
\* the message of the error main has caught, as its words; exitCode is -1
\* while the process runs; saveCalled and saved say whether saveEpicToFile
\* was called and whether it wrote the file.
NoRun ==
    [category |-> "", assignedTo |-> 0, key |-> 0, rejected |-> <<>>,
     message |-> "", notes |-> <<>>, addingTasks |-> TRUE, error |-> <<>>,
     exitCode |-> -1, saveCalled |-> FALSE, saved |-> FALSE]

(***************************************************************************)
(* SpecRound: roundUpToFib applied to sampled raw scores                   *)
(***************************************************************************)
MaxCenti == 1300

\* the next number above x (x > 0 has at least 53 significant bits here)
NextUp(x) == Norm(x.a, x.b, x.c + 2^(BitLen(x) - 53))

\* the numbers 0.00, 0.01, ... as a program literal denotes them, and the
\* number just above each
RawSamples ==
    LET lit == {DecToNum(m, 100) : m \in 0..MaxCenti}
    IN  lit \cup {NextUp(x) : x \in lit \ {Zero}}

InitRound ==
    /\ pc = "round"
    /\ n \in RawSamples
    /\ factors = [k \in KeySet |-> 0]
    /\ result = NoResult
    /\ prev = NoResult
    /\ tasks = <<>>
    /\ developers = <<>>
    /\ epicEstimate = NoEstimate
    /\ parallelEstimate = NoParallel
    /\ run = NoRun

RoundUp ==
    /\ pc = "round"
    /\ pc' = "rounded"
    /\ result' = [rawScore |-> n, fibonacciEstimate |-> roundUpToFib(n)]
    /\ UNCHANGED <<n, factors, prev, tasks, developers, epicEstimate,
                   parallelEstimate, run>>

SpecRound == InitRound /\ [][RoundUp]_vars

(***************************************************************************)
(* SpecScore: estimate applied to every rating.  SpecMono: also to the     *)
(* rating raised in one dimension.                                         *)
(***************************************************************************)
InitScore ==
    /\ pc = "rate"
    /\ n = Zero
    /\ factors \in Ratings
    /\ result = NoResult
    /\ prev = NoResult
    /\ tasks = <<>>
    /\ developers = <<>>
    /\ epicEstimate = NoEstimate
    /\ parallelEstimate = NoParallel
    /\ run = NoRun

\* createTask, from the completed rating on: score it and return the task,
\* which main appends to epic.tasks
ScoreTask ==
    /\ pc = "rate"
    /\ pc' = "scored"
    /\ result' = estimate(factors)
    /\ tasks' = Append(tasks, [factors           |-> factors,
                               rawScore          |-> result'.rawScore,
                               fibonacciEstimate |-> result'.fibonacciEstimate])
    /\ UNCHANGED <<n, factors, prev, developers, epicEstimate, parallelEstimate, run>>

\* the same rating with one dimension rated higher, scored again
Raise(k, v) ==
    /\ pc = "scored"
    /\ v > factors[k]
    /\ pc' = "raised"
    /\ prev' = result
    /\ factors' = [factors EXCEPT ![k] = v]
    /\ result' = estimate(factors')
    /\ UNCHANGED <<n, tasks, developers, epicEstimate, parallelEstimate, run>>

SpecScore == InitScore /\ [][ScoreTask]_vars

NextMono == ScoreTask \/ \E k \in KeySet, v \in 1..3 : Raise(k, v)

SpecMono == InitScore /\ [][NextMono]_vars

(***************************************************************************)
(* Worker collection (addDevelopers)                                       *)
(*                                                                         *)
(* A text is a sequence of characters.  A signed number is a record        *)
(* [nan, neg, mag]: NaN, or the sign and the magnitude.                    *)
(***************************************************************************)
Digits == {"0", "1", "2", "3", "4", "5", "6", "7", "8", "9"}

DigitVal == [ch \in Digits |->
                CASE ch = "0" -> 0 [] ch = "1" -> 1 [] ch = "2" -> 2
                  [] ch = "3" -> 3 [] ch = "4" -> 4 [] ch = "5" -> 5
                  [] ch = "6" -> 6 [] ch = "7" -> 7 [] ch = "8" -> 8
                  [] ch = "9" -> 9]

NaN == [nan |-> TRUE, neg |-> FALSE, mag |-> Zero]

Num(neg, mag) == [nan |-> FALSE, neg |-> neg, mag |-> mag]

\* the index of the first character of t, from i on, that is not white space
RECURSIVE SkipSpace(_, _)
SkipSpace(t, i) ==
    IF i <= Len(t) /\ t[i] = " " THEN SkipSpace(t, i + 1) ELSE i

\* the length of the run of digits of t that starts at i
RECURSIVE DigitRun(_, _)
DigitRun(t, i) ==
    IF i <= Len(t) /\ t[i] \in Digits THEN 1 + DigitRun(t, i + 1) ELSE 0

\* the decimal value of the k digits of t at i, appended to the value acc
RECURSIVE DigitsVal(_, _, _, _)
DigitsVal(t, i, k, acc) ==
    IF k = 0 THEN acc
    ELSE DigitsVal(t, i + 1, k - 1, 10 * acc + DigitVal[t[i]])

\* parseFloat: leading white space is skipped, then the longest prefix of the
\* form [+-] digits [. digits] or [+-] . digits is the number; anything after
\* it is ignored, and without such a prefix the result is NaN.  (Exponents
\* and "Infinity" need letters that no text of the model contains.)
parseFloatOf(t) ==
    LET i0   == SkipSpace(t, 1)
        sign == i0 <= Len(t) /\ t[i0] \in {"-", "+"}
        neg  == sign /\ t[i0] = "-"
        i1   == IF sign THEN i0 + 1 ELSE i0
        ni   == DigitRun(t, i1)
        i2   == i1 + ni
        dot  == i2 <= Len(t) /\ t[i2] = "."
        nf   == IF dot THEN DigitRun(t, i2 + 1) ELSE 0
        m    == DigitsVal(t, i2 + 1, nf, DigitsVal(t, i1, ni, 0))
    IN  IF ni + nf = 0 THEN NaN ELSE Num(neg, DecToNum(m, 10^nf))

Categories == {"Backend", "Frontend", "Design"}

DevNames == {"Ana"}

MaxDevs == 2

MaxCapLen == 3

CapChars == {"-", ".", "0", "4", "7", " ", "x"}

RECURSIVE TextsOfLen(_)
TextsOfLen(k) ==
    IF k = 0 THEN {<<>>}
    ELSE {Append(t, ch) : t \in TextsOfLen(k - 1), ch \in CapChars}

CapTexts == UNION {TextsOfLen(k) : k \in 0..MaxCapLen}

\* parseFloat, with the texts of the model parsed once
ParseTable == [t \in CapTexts |-> parseFloatOf(t)]

parseFloat(t) == IF t \in CapTexts THEN ParseTable[t] ELSE parseFloatOf(t)

\* input({ default }): an empty entry yields the default text
input(entered, default) == IF entered = <<>> THEN default ELSE entered

\* x || 4: NaN, 0 and -0 are falsy
orFour(x) == IF x.nan \/ x.mag = Zero THEN Num(FALSE, FromInt(4)) ELSE x

\* the body of the addDevelopers loop for one developer: the developer pushed
\* when the list has k entries.  Its id is `dev-${k + 1}`, modelled as k + 1.
newDeveloper(k, devName, devRole, entered) ==
    LET capacity    == input(entered, <<"4">>)
        capacityNum == orFour(parseFloat(capacity))
    IN  [id |-> k + 1, name |-> devName, role |-> devRole, capacity |-> capacityNum]

InitDevs ==
    /\ pc = "addDevelopers"
    /\ n = Zero
    /\ factors = [k \in KeySet |-> 0]
    /\ result = NoResult
    /\ prev = NoResult
    /\ tasks = <<>>
    /\ developers = <<>>
    /\ epicEstimate = NoEstimate
    /\ parallelEstimate = NoParallel
    /\ run = NoRun

\* one pass of the while loop of addDevelopers; the loop ends, and the list
\* is returned to main, when "Add another developer?" is declined
AddDeveloper(devName, devRole, entered, another) ==
    /\ pc = "addDevelopers"
    /\ Len(developers) < MaxDevs
    /\ developers' = Append(developers,
                            newDeveloper(Len(developers), devName, devRole, entered))
    /\ pc' = IF another THEN "addDevelopers" ELSE "developersAdded"
    /\ UNCHANGED <<n, factors, result, prev, tasks, epicEstimate, parallelEstimate, run>>

NextDevs ==
    \E devName \in DevNames, devRole \in Categories, entered \in CapTexts,
       another \in BOOLEAN : AddDeveloper(devName, devRole, entered, another)

SpecDevs == InitDevs /\ [][NextDevs]_vars

(***************************************************************************)
(* Sequential aggregator and parallel scheduler                            *)
(*                                                                         *)
(* A date is the number of days after today: setDate(getDate() + k) on a   *)
(* copy of today is the date k days later.  A task carries here the two    *)
(* fields the aggregators read, assignedTo and fibonacciEstimate.          *)
(***************************************************************************)
MaxTasks == 3

\* the capacity texts and effort units of the scheduling specifications
EstTexts == {<<"4">>, <<"2">>, <<"1", ".", "4">>, <<"-", "2">>}

EstFibs == {1, 5, 8}

EstCapacities == {newDeveloper(0, "Ana", "Backend", t).capacity : t \in EstTexts}

\* p / y, with the quotients of the scheduling specifications divided once
DivTable ==
    [y \in {c.mag : c \in EstCapacities} |->
        [p \in 0..(8 * MaxTasks) |-> DivExact(p, y)]]

Div(p, y) ==
    IF y \in DOMAIN DivTable /\ p \in 0..(8 * MaxTasks) THEN DivTable[y][p]
    ELSE DivExact(p, y)

\* Math.ceil(p / x) for an integer-valued p >= 0 and a signed number x # 0
CeilDiv(p, x) == IF x.neg THEN -Floor(Div(p, x.mag)) ELSE Ceil(Div(p, x.mag))

Max(i, j) == IF i >= j THEN i ELSE j

\* every duration a whole number of days
pointToDaysMapWhole ==
    [f \in FibSet |->
        CASE f = 1 -> FromInt(1)
          [] f = 2 -> FromInt(1)
          [] f = 3 -> FromInt(2)
          [] f = 5 -> FromInt(3)
          [] f = 8 -> FromInt(5)]

\* 2 days in place of 2.5 for 5 points
pointToDaysMapShort ==
    [f \in FibSet |->
        CASE f = 1 -> FromInt(1)
          [] f = 2 -> FromInt(1)
          [] f = 3 -> DecToNum(15, 10)
          [] f = 5 -> FromInt(2)
          [] f = 8 -> FromInt(5)]

pointToDaysMap ==
    [f \in FibSet |->
        CASE f = 1 -> FromInt(1)
          [] f = 2 -> FromInt(1)
          [] f = 3 -> DecToNum(15, 10)
          [] f = 5 -> DecToNum(25, 10)
          [] f = 8 -> FromInt(5)]

\* tasks.reduce((sum, task) => sum + task.fibonacciEstimate, 0)
RECURSIVE sumPoints(_, _)
sumPoints(ts, i) ==
    IF i = 0 THEN 0 ELSE sumPoints(ts, i - 1) + ts[i].fibonacciEstimate

\* tasks.reduce((sum, task) => sum + (pointToDaysMap[...] || 0), 0)
RECURSIVE sumDays(_, _)
sumDays(ts, i) ==
    IF i = 0 THEN Zero
    ELSE Add(sumDays(ts, i - 1),
             IF ts[i].fibonacciEstimate \in DOMAIN pointToDaysMap
             THEN pointToDaysMap[ts[i].fibonacciEstimate] ELSE Zero)

\* Math.floor in place of Math.ceil
calculateEpicEstimateFloor(ts) ==
    [totalPoints           |-> sumPoints(ts, Len(ts)),
     estimatedDays         |-> sumDays(ts, Len(ts)),
     estimatedDeliveryDate |-> Floor(sumDays(ts, Len(ts)))]

calculateEpicEstimate(ts) ==
    LET totalPoints   == sumPoints(ts, Len(ts))
        estimatedDays == sumDays(ts, Len(ts))
    IN  [totalPoints           |-> totalPoints,
         estimatedDays         |-> estimatedDays,
         estimatedDeliveryDate |-> Ceil(estimatedDays)]

\* tasksByDev: its keys in insertion order (the order of first appearance in
\* the task list), and the tasks under a key in task order
RECURSIVE keysInOrder(_, _)
keysInOrder(ts, i) ==
    IF i = 0 THEN <<>>
    ELSE LET ks == keysInOrder(ts, i - 1)
         IN  IF \E j \in 1..Len(ks) : ks[j] = ts[i].assignedTo THEN ks
             ELSE Append(ks, ts[i].assignedTo)

tasksByDev(ts, devId) == SelectSeq(ts, LAMBDA t : t.assignedTo = devId)

\* the first developer in place of no developer when none matches
findOrFirst(devs, devId) ==
    IF \E i \in 1..Len(devs) : devs[i].id = devId
    THEN CHOOSE i \in 1..Len(devs) :
            devs[i].id = devId /\ \A j \in 1..(i - 1) : devs[j].id # devId
    ELSE IF Len(devs) > 0 THEN 1 ELSE 0

\* developers.find((d) => d.id === devId): the index of the first match, or 0
find(devs, devId) ==
    IF \E i \in 1..Len(devs) : devs[i].id = devId
    THEN CHOOSE i \in 1..Len(devs) :
            devs[i].id = devId /\ \A j \in 1..(i - 1) : devs[j].id # devId
    ELSE 0

\* the entry the forEach callback writes for devId (dev found)
devEstimate(ts, devs, devId) ==
    LET dev         == devs[find(devs, devId)]
        devTasks    == tasksByDev(ts, devId)
        totalPoints == sumPoints(devTasks, Len(devTasks))
        days        == CeilDiv(totalPoints, dev.capacity)
    IN  [name |-> dev.name, days |-> days, points |-> totalPoints]

\* maxDays = daysNeeded in place of Math.max(maxDays, daysNeeded)
RECURSIVE maxDaysLast(_, _, _, _)
maxDaysLast(ts, devs, ks, i) ==
    IF i = 0 THEN 0
    ELSE LET m == maxDaysLast(ts, devs, ks, i - 1)
         IN  IF find(devs, ks[i]) = 0 THEN m
             ELSE devEstimate(ts, devs, ks[i]).days

\* maxDays after the forEach over the first i keys
RECURSIVE maxDaysUpTo(_, _, _, _)
maxDaysUpTo(ts, devs, ks, i) ==
    IF i = 0 THEN 0
    ELSE LET m == maxDaysUpTo(ts, devs, ks, i - 1)
         IN  IF find(devs, ks[i]) = 0 THEN m
             ELSE Max(m, devEstimate(ts, devs, ks[i]).days)

calculateParallelEstimate(ts, devs) ==
    LET ks      == keysInOrder(ts, Len(ts))
        found   == {ks[i] : i \in {j \in 1..Len(ks) : find(devs, ks[j]) # 0}}
        maxDays == maxDaysUpTo(ts, devs, ks, Len(ks))
    IN  [totalDays    |-> maxDays,
         deliveryDate |-> maxDays,
         breakdown    |-> [devId \in found |-> devEstimate(ts, devs, devId)]]

(***************************************************************************)
(* SpecSeq and SpecPar: main's estimation step applied to task lists and   *)
(* worker lists.  SpecSeq draws every effort unit and no worker; SpecPar   *)
(* draws workers as addDevelopers builds them and tasks assigned to their  *)
(* ids and to one id that no worker has.                                   *)
(***************************************************************************)
RECURSIVE SeqsUpTo(_, _)
SeqsUpTo(S, k) ==
    IF k = 0 THEN {<<>>}
    ELSE LET shorter == SeqsUpTo(S, k - 1)
         IN  shorter \cup {Append(q, x) : q \in {r \in shorter : Len(r) = k - 1}, x \in S}

RECURSIVE DevListsUpTo(_)
DevListsUpTo(k) ==
    IF k = 0 THEN {<<>>}
    ELSE LET shorter == DevListsUpTo(k - 1)
         IN  shorter \cup
             {Append(ds, newDeveloper(Len(ds), "Ana", "Backend", t)) :
                 ds \in {r \in shorter : Len(r) = k - 1}, t \in EstTexts}

SeqTaskLists ==
    SeqsUpTo([assignedTo : {1}, fibonacciEstimate : FibSet], MaxTasks)

ParTaskLists ==
    SeqsUpTo([assignedTo : 1..(MaxDevs + 1), fibonacciEstimate : EstFibs], MaxTasks)

InitEst(taskLists, devLists) ==
    /\ pc = "calculate"
    /\ n = Zero
    /\ factors = [k \in KeySet |-> 0]
    /\ result = NoResult
    /\ prev = NoResult
    /\ tasks \in taskLists
    /\ developers \in devLists
    /\ epicEstimate = NoEstimate
    /\ parallelEstimate = NoParallel
    /\ run = NoRun

\* main, once the task loop has ended: both estimates are computed
Calculate ==
    /\ pc = "calculate"
    /\ pc' = "calculated"
    /\ epicEstimate' = calculateEpicEstimate(tasks)
    /\ parallelEstimate' = calculateParallelEstimate(tasks, developers)
    /\ UNCHANGED <<n, factors, result, prev, tasks, developers, run>>

SpecSeq == InitEst(SeqTaskLists, {<<>>}) /\ [][Calculate]_vars

SpecPar == InitEst(ParTaskLists, DevListsUpTo(MaxDevs)) /\ [][Calculate]_vars

(***************************************************************************)
(* createTask and main                                                     *)
(*                                                                         *)
(* createTask is modelled prompt by prompt.  The task name takes no part   *)
(* in any computation and is left out.  An error message is the sequence   *)
(* of its words.                                                           *)
(***************************************************************************)
MaxMainTasks == 2

MaxNotes == 1

MaxRated == 1

\* String.prototype.trim
RECURSIVE trimEnd(_)
trimEnd(t) ==
    IF Len(t) > 0 /\ t[Len(t)] = " " THEN trimEnd(SubSeq(t, 1, Len(t) - 1))
    ELSE t

trim(t) == trimEnd(SubSeq(t, SkipSpace(t, 1), Len(t)))

\* Number.isInteger of a number that is not NaN
isInteger(x) == x.mag.a % 4096 = 0 /\ x.mag.b = 0 /\ x.mag.c = 0

\* the entries at a rating prompt: nothing, blanks, texts that are no
\* number, numbers out of range, fractions, and acceptable numbers
RateTexts ==
    {<<>>, <<" ">>, <<"x">>, <<"-">>, <<"-", "1">>, <<"4">>, <<"1", ".", "5">>,
     <<"3", ".", "5">>, <<".", "5">>, <<"0">>, <<"2">>, <<"3">>, <<"-", "0">>,
     <<"3", "x">>, <<" ", "3", " ">>, <<"2", ".", "0">>, <<"0", "3">>}

\* the texts entered at a note prompt
NoteTexts == {<<>>, <<" ">>, <<" ", "n", " ">>}

\* the range test left out
rateNoRange(entered) ==
    LET inputVal == input(entered, <<"0">>)
        parsed   == parseFloat(inputVal)
    IN  IF trim(inputVal) = <<>> THEN [valid |-> TRUE, value |-> 0, message |-> ""]
        ELSE IF parsed.nan
        THEN [valid |-> FALSE, value |-> 0, message |-> "valid number"]
        ELSE IF ~isInteger(parsed)
        THEN [valid |-> FALSE, value |-> 0, message |-> "whole number"]
        ELSE [valid |-> TRUE, value |-> Floor(parsed.mag), message |-> ""]

\* one pass of the while loop over the entry at a rating prompt: whether the
\* entry is accepted, the value stored if it is, and the line logged if it
\* is not.  (An accepted -0 is stored as -0, which is the number 0.)
rate(entered) ==
    LET inputVal == input(entered, <<"0">>)
        parsed   == parseFloat(inputVal)
    IN  IF trim(inputVal) = <<>> THEN [valid |-> TRUE, value |-> 0, message |-> ""]
        ELSE IF parsed.nan
        THEN [valid |-> FALSE, value |-> 0, message |-> "valid number"]
        ELSE IF (parsed.neg /\ parsed.mag # Zero)
                    \/ (~parsed.neg /\ Lt(FromInt(3), parsed.mag))
        THEN [valid |-> FALSE, value |-> 0, message |-> "between 0 and 3"]
        ELSE IF ~isInteger(parsed)
        THEN [valid |-> FALSE, value |-> 0, message |-> "whole number"]
        ELSE [valid |-> TRUE, value |-> Floor(parsed.mag), message |-> ""]

\* rate, with the entries of the model decided once
RateTable == [t \in RateTexts |-> rate(t)]

\* every developer in place of those of the chosen category
availableDevsAny(devs, category) == devs

\* developers.filter((d) => d.role === category)
availableDevs(devs, category) == SelectSeq(devs, LAMBDA d : d.role = category)

\* every message taken for one that includes the part
includesAlways(msg, part) == Len(msg) >= 0

\* String.prototype.includes on the words of a message
includes(msg, part) ==
    \E i \in 0..(Len(msg) - Len(part)) :
        \A j \in 1..Len(part) : msg[i + j] = part[j]

\* the number of notes of the task in hand that are not empty
NotesWritten == Cardinality({k \in DOMAIN run.notes : run.notes[k] # <<>>})

\* the number of dimensions of the task in hand rated above 0
RatedAboveZero == Cardinality({k \in DOMAIN factors : factors[k] > 0})

\* main, from the return of addDevelopers to the first pass of the task loop
CreateEpic ==
    /\ pc = "developersAdded"
    /\ pc' = "createTask"
    /\ tasks' = <<>>
    /\ epicEstimate' = NoEstimate
    /\ parallelEstimate' = NoParallel
    /\ run' = [run EXCEPT !.addingTasks = TRUE]
    /\ UNCHANGED <<n, factors, result, prev, developers>>

\* createTask up to the choice of the category: with no developer of that
\* category it throws, and main catches
ChooseCategory(category) ==
    /\ pc = "createTask"
    /\ IF Len(availableDevs(developers, category)) = 0
       THEN /\ pc' = "catch"
            /\ run' = [run EXCEPT !.category = category, !.assignedTo = 0,
                                  !.key = 0, !.rejected = <<>>, !.message = "",
                                  !.notes = <<>>,
                                  !.error = <<"No", category, "developers",
                                              "available">>]
       ELSE /\ pc' = "assign"
            /\ run' = [run EXCEPT !.category = category, !.assignedTo = 0,
                                  !.key = 0, !.rejected = <<>>, !.message = "",
                                  !.notes = <<>>]
    /\ UNCHANGED <<n, factors, result, prev, tasks, developers, epicEstimate,
                   parallelEstimate>>

\* the choice among the developers of the category; factors and notes start
\* empty and the first rating prompt follows
Assign(i) ==
    /\ pc = "assign"
    /\ i \in 1..Len(availableDevs(developers, run.category))
    /\ pc' = "rating"
    /\ run' = [run EXCEPT
                 !.assignedTo = availableDevs(developers, run.category)[i].id,
                 !.key = 1]
    /\ factors' = <<>>
    /\ UNCHANGED <<n, result, prev, tasks, developers, epicEstimate,
                   parallelEstimate>>

\* the step after the note of dimension key is settled
NextPrompt(r) ==
    IF r.key = Len(KEYS) THEN r ELSE [r EXCEPT !.key = r.key + 1]

\* an entry at the rating prompt of dimension key: turned down and asked
\* again, or stored; a value above 0 is followed by the note prompt
EnterRating(entered) ==
    /\ pc = "rating"
    /\ LET r   == RateTable[entered]
           key == KEYS[run.key]
       IN  IF ~r.valid
           THEN /\ pc' = "rating"
                /\ run' = [run EXCEPT !.rejected = entered, !.message = r.message]
                /\ UNCHANGED factors
           ELSE /\ factors' = factors @@ (key :> r.value)
                /\ IF r.value > 0
                   THEN /\ pc' = "note"
                        /\ run' = [run EXCEPT !.rejected = <<>>, !.message = ""]
                   ELSE /\ pc' = IF run.key = Len(KEYS) THEN "score" ELSE "rating"
                        /\ run' = NextPrompt([run EXCEPT
                                      !.rejected = <<>>, !.message = "",
                                      !.notes = run.notes @@ (key :> <<>>)])
    /\ UNCHANGED <<n, result, prev, tasks, developers, epicEstimate,
                   parallelEstimate>>

\* an entry at the note prompt of dimension key
EnterNote(entered) ==
    /\ pc = "note"
    /\ trim(entered) # <<>> => NotesWritten < MaxNotes
    /\ pc' = IF run.key = Len(KEYS) THEN "score" ELSE "rating"
    /\ run' = NextPrompt([run EXCEPT
                  !.notes = run.notes @@ (KEYS[run.key] :> trim(input(entered, <<>>)))])
    /\ UNCHANGED <<n, factors, result, prev, tasks, developers, epicEstimate,
                   parallelEstimate>>

\* createTask scores the rating and returns the task; main pushes it
ReturnTask ==
    /\ pc = "score"
    /\ pc' = "confirmTask"
    /\ result' = estimate(factors)
    /\ tasks' = Append(tasks, [category          |-> run.category,
                               assignedTo        |-> run.assignedTo,
                               factors           |-> factors,
                               notes             |-> run.notes,
                               rawScore          |-> result'.rawScore,
                               fibonacciEstimate |-> result'.fibonacciEstimate])
    /\ UNCHANGED <<n, factors, prev, developers, epicEstimate, parallelEstimate,
                   run>>

\* the answer to "Add another task?"
AnotherTask(another) ==
    /\ pc = "confirmTask"
    /\ another => Len(tasks) < MaxMainTasks
    /\ pc' = IF another THEN "createTask" ELSE "calculate"
    /\ run' = [run EXCEPT !.addingTasks = another]
    /\ UNCHANGED <<n, factors, result, prev, tasks, developers, epicEstimate,
                   parallelEstimate>>

\* saveEpicToFile: the file is written or the failure is logged; main
\* returns either way and the process ends with exit code 0
SaveEpic(written) ==
    /\ pc = "calculated"
    /\ pc' = "done"
    /\ run' = [run EXCEPT !.saveCalled = TRUE, !.saved = written, !.exitCode = 0]
    /\ UNCHANGED <<n, factors, result, prev, tasks, developers, epicEstimate,
                   parallelEstimate>>

\* a prompt closed by the user rejects with "User force closed the prompt":
\* the rating loop catches it and asks again, elsewhere main catches it
ForceClose ==
    /\ pc \in {"addDevelopers", "createTask", "assign", "rating", "note",
               "confirmTask"}
    /\ IF pc = "rating"
       THEN /\ pc' = "rating"
            /\ run' = [run EXCEPT !.rejected = <<>>, !.message = "Input error"]
       ELSE /\ pc' = "catch"
            /\ run' = [run EXCEPT !.error = <<"User", "force", "closed", "the",
                                              "prompt">>]
    /\ UNCHANGED <<n, factors, result, prev, tasks, developers, epicEstimate,
                   parallelEstimate>>

\* the catch of main
Catch ==
    /\ pc = "catch"
    /\ pc' = "exited"
    /\ run' = [run EXCEPT !.exitCode =
                  IF includes(run.error, <<"User", "force", "closed">>)
                  THEN 0 ELSE 1]
    /\ UNCHANGED <<n, factors, result, prev, tasks, developers, epicEstimate,
                   parallelEstimate>>

(***************************************************************************)
(* SpecTask: createTask, called with one Backend developer, with every     *)
(* entry of RateTexts at every rating prompt.  SpecMain: main from         *)
(* addDevelopers to the exit, with a few entries at each prompt.           *)
(***************************************************************************)
TaskDevLists == {<<newDeveloper(0, "Ana", "Backend", <<>>)>>}

InitTask ==
    /\ pc = "createTask"
    /\ n = Zero
    /\ factors = [k \in KeySet |-> 0]
    /\ result = NoResult
    /\ prev = NoResult
    /\ tasks = <<>>
    /\ developers \in TaskDevLists
    /\ epicEstimate = NoEstimate
    /\ parallelEstimate = NoParallel
    /\ run = NoRun

NextTask ==
    \/ \E category \in Categories : ChooseCategory(category)
    \/ \E i \in 1..MaxDevs : Assign(i)
    \/ \E entered \in RateTexts : EnterRating(entered)
    \/ \E entered \in NoteTexts : EnterNote(entered)
    \/ ReturnTask
    \/ ForceClose
    \/ Catch

SpecTask == InitTask /\ [][NextTask]_vars

\* the capacity and rating entries of SpecMain (every capacity is the
\* default), where at most MaxRated dimensions of a task are rated above 0
MainCapTexts == {<<>>}

MainRateTexts == {<<>>, <<"x">>, <<"3">>}

MainRating(entered) ==
    /\ RateTable[entered].value > 0 => RatedAboveZero < MaxRated
    /\ EnterRating(entered)

NextMain ==
    \/ \E devName \in DevNames, devRole \in Categories, entered \in MainCapTexts,
          another \in BOOLEAN : AddDeveloper(devName, devRole, entered, another)
    \/ CreateEpic
    \/ \E category \in Categories : ChooseCategory(category)
    \/ \E i \in 1..MaxDevs : Assign(i)
    \/ \E entered \in MainRateTexts : MainRating(entered)
    \/ \E entered \in NoteTexts : EnterNote(entered)
    \/ ReturnTask
    \/ \E another \in BOOLEAN : AnotherTask(another)
    \/ Calculate
    \/ \E written \in BOOLEAN : SaveEpic(written)
    \/ ForceClose
    \/ Catch

SpecMain == InitDevs /\ [][NextMain]_vars

(***************************************************************************)
(* SpecOrder: the estimates computed, and computed again on the same tasks  *)
(* and workers in another order.  SpecBound: the estimates of task lists   *)
(* of every effort unit assigned to the workers of the list.               *)
(***************************************************************************)
\* the orders of a list of k entries, for the list lengths of the model
PermTable ==
    [k \in 0..Max(MaxTasks, MaxDevs) |->
        {p \in [1..k -> 1..k] : \A i, j \in 1..k : p[i] = p[j] => i = j}]

Perms(k) == PermTable[k]

permute(q, p) == [i \in 1..Len(q) |-> q[p[i]]]

\* both estimates of the task list in the order p and the worker list in the
\* order q; prev keeps the estimates of the first order and whether both
\* lists have changed
Reorder(p, q) ==
    /\ pc = "calculated"
    /\ pc' = "reordered"
    /\ prev' = [moved |-> permute(tasks, p) # tasks
                             /\ permute(developers, q) # developers,
                epicEstimate |-> epicEstimate,
                parallelEstimate |-> parallelEstimate]
    /\ tasks' = permute(tasks, p)
    /\ developers' = permute(developers, q)
    /\ epicEstimate' = calculateEpicEstimate(tasks')
    /\ parallelEstimate' = calculateParallelEstimate(tasks', developers')
    /\ UNCHANGED <<n, factors, result, run>>

NextOrder ==
    \/ Calculate
    \/ \E p \in Perms(Len(tasks)), q \in Perms(Len(developers)) : Reorder(p, q)

\* the task lists of SpecOrder: effort units 1 and 8, assigned as in SpecPar
OrderTaskLists ==
    SeqsUpTo([assignedTo : 1..(MaxDevs + 1), fibonacciEstimate : {1, 8}], MaxTasks)

SpecOrder == InitEst(OrderTaskLists, DevListsUpTo(MaxDevs)) /\ [][NextOrder]_vars

BoundTaskLists ==
    SeqsUpTo([assignedTo : 1..MaxDevs, fibonacciEstimate : FibSet], MaxTasks)

SpecBound == InitEst(BoundTaskLists, DevListsUpTo(MaxDevs)) /\ [][Calculate]_vars

(***************************************************************************)
(* Properties                                                              *)
(***************************************************************************)
Lit2_4 == DecToNum(24, 10)

Lit8_01 == DecToNum(801, 100)

\* C1: for every raw score >= 0, roundUpToFib returns the smallest of
\* 1, 2, 3, 5, 8 that is >= the raw score, and 8 when the raw score exceeds 8;
\* 0 -> 1, 1.0 -> 1, 2.4 -> 3, 5.0 -> 5, 8.01 -> 8.
C1_RoundUpToFib ==
    pc = "rounded" =>
        LET f == result.fibonacciEstimate
        IN  /\ f \in FibSet
            /\ Leq(n, FromInt(8)) =>
                  /\ Leq(n, FromInt(f))
                  /\ \A g \in FibSet : Leq(n, FromInt(g)) => f <= g
            /\ ~Leq(n, FromInt(8)) => f = 8
            /\ n = Zero => f = 1
            /\ n = FromInt(1) => f = 1
            /\ n = Lit2_4 => f = 3
            /\ n = FromInt(5) => f = 5
            /\ n = Lit8_01 => f = 8

C1_Witness == pc = "rounded" /\ n = Lit2_4 /\ result.fibonacciEstimate = 3

\* C2: for every rating, estimate returns an effort unit in {1, 2, 3, 5, 8},
\* and so has every task stored in the epic.
C2_EffortUnitInScale ==
    /\ pc = "scored" => result.fibonacciEstimate \in FibSet
    /\ \A i \in 1..Len(tasks) : tasks[i].fibonacciEstimate \in FibSet

C2_Witness ==
    /\ pc = "scored"
    /\ Len(tasks) = 1
    /\ tasks[1].fibonacciEstimate = 8
    /\ ~Leq(tasks[1].rawScore, FromInt(8))

\* the weights in tenths, and the exact weighted sum of a rating in tenths
WeightTenths ==
    [uncertainty |-> 8, complexity |-> 6, testability |-> 4, legacyImpact |-> 5,
     integrationDifficulty |-> 7, refactorEffort |-> 4, dependencies |-> 5,
     requirementVolatility |-> 4]

RECURSIVE SumTenthsUpTo(_, _)
SumTenthsUpTo(f, i) ==
    IF i = 0 THEN 0
    ELSE SumTenthsUpTo(f, i - 1) + f[KEYS[i]] * WeightTenths[KEYS[i]]

SumTenths(f) == SumTenthsUpTo(f, Len(KEYS))

\* the number that t tenths denotes, for every sum a rating can have
OfTenths == [t \in 0..129 |-> DecToNum(t, 10)]

\* C3: for every rating, rawScore is the sum over the dimensions of rating x
\* weight; the all-zero rating gives 0 and effort unit 1, the all-three rating
\* gives 12.9 and effort unit 8.
C3_RawScoreIsWeightedSum ==
    pc = "scored" =>
        /\ result.rawScore = OfTenths[SumTenths(factors)]
        /\ (\A k \in KeySet : factors[k] = 0) =>
              result.rawScore = Zero /\ result.fibonacciEstimate = 1
        /\ (\A k \in KeySet : factors[k] = 3) =>
              result.rawScore = OfTenths[129] /\ result.fibonacciEstimate = 8

\* C4: raising one dimension of a rating, the others held, lowers neither
\* rawScore nor the effort unit.
C4_Monotone ==
    pc = "raised" =>
        /\ Leq(prev.rawScore, result.rawScore)
        /\ prev.fibonacciEstimate <= result.fibonacciEstimate

C4_Witness ==
    /\ pc = "raised"
    /\ Lt(prev.rawScore, result.rawScore)
    /\ prev.fibonacciEstimate < result.fibonacciEstimate

\* the number of tasks of ts with effort unit f, and h half days as a number
CountOf(ts, f) == Cardinality({i \in 1..Len(ts) : ts[i].fibonacciEstimate = f})

HalfDays(h) == [a |-> 2048 * h, b |-> 0, c |-> 0]

\* the durations of the table in half days: 1 -> 1, 2 -> 1, 3 -> 1.5,
\* 5 -> 2.5, 8 -> 5 days
TableHalves(ts) ==
    2 * CountOf(ts, 1) + 2 * CountOf(ts, 2) + 3 * CountOf(ts, 3)
        + 5 * CountOf(ts, 5) + 10 * CountOf(ts, 8)

FibsOf(ts) == [i \in 1..Len(ts) |-> ts[i].fibonacciEstimate]

\* C5: calculateEpicEstimate returns the sum of the effort units as
\* totalPoints and the sum of the table durations, not rounded per task, as
\* estimatedDays; effort units 3 and 5 give 4.0 days.
C5_SequentialTotals ==
    pc = "calculated" =>
        /\ epicEstimate.totalPoints =
              CountOf(tasks, 1) + 2 * CountOf(tasks, 2) + 3 * CountOf(tasks, 3)
                  + 5 * CountOf(tasks, 5) + 8 * CountOf(tasks, 8)
        /\ epicEstimate.estimatedDays = HalfDays(TableHalves(tasks))
        /\ FibsOf(tasks) = <<3, 5>> => epicEstimate.estimatedDays = FromInt(4)

C5_Witness ==
    /\ pc = "calculated"
    /\ FibsOf(tasks) = <<3, 5>>
    /\ epicEstimate.totalPoints = 8
    /\ epicEstimate.estimatedDays = FromInt(4)

\* the worker with id devId (ids are distinct), the effort units assigned to
\* an id, and the exact ceiling of p / (m / d) for the decimal m / d
HasWorker(devId) == \E i \in 1..Len(developers) : developers[i].id = devId

PointsOf(ts, devId) ==
    LET mine(f) == Cardinality({i \in 1..Len(ts) :
                        ts[i].assignedTo = devId /\ ts[i].fibonacciEstimate = f})
    IN  mine(1) + 2 * mine(2) + 3 * mine(3) + 5 * mine(5) + 8 * mine(8)

HasTask(ts, devId) == \E i \in 1..Len(ts) : ts[i].assignedTo = devId

\* the decimals the capacities of SpecPar denote: 4, 1.4 and (-)2
EstDecimals == {<<4, 1>>, <<14, 10>>, <<2, 1>>}

DecimalTable ==
    [m \in {x.mag : x \in EstCapacities} |->
        CHOOSE md \in EstDecimals : DecToNum(md[1], md[2]) = m]

DecimalOf(x) == DecimalTable[x.mag]

\* ceil(p / capacity) in exact arithmetic
ExactCeilDiv(p, x) ==
    LET md == DecimalOf(x)
    IN  IF x.neg THEN -((p * md[2]) \div md[1])
        ELSE (p * md[2] + md[1] - 1) \div md[1]

\* C6: every worker of the list with at least one assigned task has exactly
\* one breakdown entry, under its id, with points the sum of its tasks' effort
\* units and days = ceil(points / capacity); a worker without a task has none;
\* capacity 4 and 18 points give 5 days.
C6_WorkerBreakdown ==
    pc = "calculated" =>
        \A i \in 1..Len(developers) :
            LET dev == developers[i]
            IN  IF HasTask(tasks, dev.id)
                THEN /\ dev.id \in DOMAIN parallelEstimate.breakdown
                     /\ parallelEstimate.breakdown[dev.id].points =
                           PointsOf(tasks, dev.id)
                     /\ parallelEstimate.breakdown[dev.id].days =
                           ExactCeilDiv(PointsOf(tasks, dev.id), dev.capacity)
                ELSE dev.id \notin DOMAIN parallelEstimate.breakdown

\* C7: totalDays is the maximum of the days of the breakdown entries, and 0
\* when the breakdown is empty; the parallel delivery date is today plus
\* totalDays.
C7_TotalDaysIsMax ==
    pc = "calculated" =>
        LET bd == parallelEstimate.breakdown
        IN  /\ DOMAIN bd = {} => parallelEstimate.totalDays = 0
            /\ DOMAIN bd # {} =>
                  /\ \E k \in DOMAIN bd : bd[k].days = parallelEstimate.totalDays
                  /\ \A k \in DOMAIN bd : bd[k].days <= parallelEstimate.totalDays
            /\ parallelEstimate.deliveryDate = parallelEstimate.totalDays

Matched(ts) == SelectSeq(ts, LAMBDA t : HasWorker(t.assignedTo))

\* C9: a task whose assignedTo matches no worker raises no error, has no
\* breakdown entry and adds nothing to any worker's points or to totalDays:
\* the estimate is the one of the task list without such tasks.
C9_UnmatchedTaskDropped ==
    pc = "calculated" =>
        /\ \A i \in 1..Len(tasks) :
              ~HasWorker(tasks[i].assignedTo) =>
                  tasks[i].assignedTo \notin DOMAIN parallelEstimate.breakdown
        /\ \A k \in DOMAIN parallelEstimate.breakdown :
              parallelEstimate.breakdown[k].points = PointsOf(Matched(tasks), k)
        /\ parallelEstimate = calculateParallelEstimate(Matched(tasks), developers)

C9_Witness ==
    /\ pc = "calculated"
    /\ \E i \in 1..Len(tasks) : ~HasWorker(tasks[i].assignedTo)
    /\ \E i \in 1..Len(tasks) :
          /\ tasks[i].assignedTo \in DOMAIN parallelEstimate.breakdown
          /\ parallelEstimate.breakdown[tasks[i].assignedTo].points
                < epicEstimate.totalPoints
    /\ parallelEstimate.totalDays > 0

\* C10: every worker that addDevelopers produces has a positive capacity,
\* whatever capacity text is entered (4 when nothing usable is entered).
C10_CapacityPositive ==
    \A i \in 1..Len(developers) :
        /\ ~developers[i].capacity.nan
        /\ ~developers[i].capacity.neg
        /\ developers[i].capacity.mag # Zero

\* C11: at every point of the run of main, the worker ids are pairwise
\* distinct and every task stored in the epic has an assignedTo that is the
\* id of exactly one worker of the list, whose role is the task's category.
C11_AssignedWorkerMatches ==
    /\ \A i, j \in 1..Len(developers) :
          i # j => developers[i].id # developers[j].id
    /\ \A t \in 1..Len(tasks) :
          /\ Cardinality({i \in 1..Len(developers) :
                             developers[i].id = tasks[t].assignedTo}) = 1
          /\ \A i \in 1..Len(developers) :
                developers[i].id = tasks[t].assignedTo =>
                    developers[i].role = tasks[t].category

C11_Witness ==
    /\ Len(developers) = 2
    /\ developers[1].role # developers[2].role
    /\ Len(tasks) = 2
    /\ tasks[1].assignedTo = developers[2].id
    /\ tasks[2].assignedTo = developers[1].id

\* what an entry at a rating prompt denotes, in exact decimal arithmetic:
\* 0 for nothing or blanks, the integer 0..3 its leading number is, or -1
ExactRating(entered) ==
    LET t    == IF entered = <<>> THEN <<"0">> ELSE entered
        i0   == SkipSpace(t, 1)
        sign == i0 <= Len(t) /\ t[i0] \in {"-", "+"}
        i1   == IF sign THEN i0 + 1 ELSE i0
        ni   == DigitRun(t, i1)
        dot  == i1 + ni <= Len(t) /\ t[i1 + ni] = "."
        nf   == IF dot THEN DigitRun(t, i1 + ni + 1) ELSE 0
        whole == DigitsVal(t, i1, ni, 0)
        frac  == DigitsVal(t, i1 + ni + 1, nf, 0)
    IN  IF i0 > Len(t) THEN 0
        ELSE IF ni + nf = 0 THEN -1
        ELSE IF frac # 0 \/ whole > 3 THEN -1
        ELSE IF sign /\ t[i0] = "-" /\ whole # 0 THEN -1
        ELSE whole

\* the rating loop accepts exactly the entries that denote a rating
RateDecisionsExact ==
    \A t \in RateTexts :
        /\ RateTable[t].valid = (ExactRating(t) >= 0)
        /\ RateTable[t].valid => RateTable[t].value = ExactRating(t)

\* C12: every task createTask returns has a rating with all 8 dimensions,
\* each an integer in 0..3, whatever is entered at the rating prompts; an
\* entry that denotes no such integer is asked again and not stored, and the
\* note of a dimension rated 0 is the empty text.
C12_RatingComplete ==
    /\ RateDecisionsExact
    /\ \A t \in 1..Len(tasks) :
          /\ DOMAIN tasks[t].factors = KeySet
          /\ DOMAIN tasks[t].notes = KeySet
          /\ \A k \in KeySet :
                /\ tasks[t].factors[k] \in 0..3
                /\ tasks[t].factors[k] = 0 => tasks[t].notes[k] = <<>>
    /\ pc \in {"rating", "note", "score"} =>
          /\ DOMAIN factors \subseteq KeySet
          /\ \A k \in DOMAIN factors : factors[k] \in 0..3
    /\ run.message # "" =>
          /\ pc = "rating"
          /\ KEYS[run.key] \notin DOMAIN factors
          /\ run.rejected # <<>> => ExactRating(run.rejected) < 0

C12_Witness ==
    /\ pc = "confirmTask"
    /\ Len(tasks) = 1
    /\ tasks[1].factors["uncertainty"] = 3
    /\ tasks[1].factors["complexity"] = 0
    /\ tasks[1].factors["requirementVolatility"] = 2
    /\ tasks[1].notes["uncertainty"] = <<"n">>
    /\ tasks[1].notes["requirementVolatility"] = <<>>

\* C13: the estimates do not depend on the order of the task list or of the
\* worker list (worker ids distinct): sequential totalPoints and
\* estimatedDays, parallel totalDays and every worker's breakdown points and
\* days are those of the lists in any other order.
C13_OrderIndependent ==
    pc = "reordered" =>
        /\ epicEstimate.totalPoints = prev.epicEstimate.totalPoints
        /\ epicEstimate.estimatedDays = prev.epicEstimate.estimatedDays
        /\ parallelEstimate.totalDays = prev.parallelEstimate.totalDays
        /\ DOMAIN parallelEstimate.breakdown = DOMAIN prev.parallelEstimate.breakdown
        /\ \A k \in DOMAIN parallelEstimate.breakdown :
              /\ parallelEstimate.breakdown[k].points =
                    prev.parallelEstimate.breakdown[k].points
              /\ parallelEstimate.breakdown[k].days =
                    prev.parallelEstimate.breakdown[k].days

C13_Witness ==
    /\ pc = "reordered"
    /\ prev.moved
    /\ Cardinality(DOMAIN parallelEstimate.breakdown) = 2
    /\ \E j, k \in DOMAIN parallelEstimate.breakdown :
          parallelEstimate.breakdown[j].days < parallelEstimate.breakdown[k].days

\* a capacity of at least 2, and a positive capacity below 2
AtLeastTwo(x) == ~x.nan /\ ~x.neg /\ Leq(FromInt(2), x.mag)

BelowTwo(x) == ~x.nan /\ ~x.neg /\ x.mag # Zero /\ Lt(x.mag, FromInt(2))

\* some worker of capacity below 2 needs more days for one task than the
\* sequential estimate of that task, rounded up
BelowTwoCanFail ==
    \E ts \in {q \in BoundTaskLists : Len(q) = 1}, devs \in DevListsUpTo(1) :
        /\ \A i \in 1..Len(devs) : BelowTwo(devs[i].capacity)
        /\ calculateParallelEstimate(ts, devs).totalDays
              > Ceil(calculateEpicEstimate(ts).estimatedDays)

\* C14: when every worker has a capacity of at least 2, the parallel
\* totalDays is at most ceil(sequential estimatedDays), so the parallel
\* delivery date is not after the sequential one; with a capacity below 2 the
\* bound can fail.
C14_ParallelNotLater ==
    /\ BelowTwoCanFail
    /\ (pc = "calculated" /\ \A i \in 1..Len(developers) :
                                AtLeastTwo(developers[i].capacity)) =>
          /\ parallelEstimate.totalDays <= Ceil(epicEstimate.estimatedDays)
          /\ parallelEstimate.deliveryDate <= epicEstimate.estimatedDeliveryDate

C14_Witness ==
    /\ pc = "calculated"
    /\ Len(developers) = 2
    /\ developers[1].capacity.mag = FromInt(2)
    /\ developers[2].capacity.mag = FromInt(4)
    /\ \A i \in 1..Len(developers) : AtLeastTwo(developers[i].capacity)
    /\ Len(tasks) = 3
    /\ parallelEstimate.totalDays = Ceil(epicEstimate.estimatedDays)
    /\ parallelEstimate.totalDays > 0

\* the category chosen in createTask has no worker, and both estimates are
\* still those of the epic main created
NoWorkerOfCategory ==
    /\ run.category # ""
    /\ ~\E i \in 1..Len(developers) : developers[i].role = run.category

NotComputed == epicEstimate = NoEstimate /\ parallelEstimate = NoParallel

\* C15: when the category chosen for a task has no worker, createTask throws
\* before any rating prompt and the run ends with exit code 1, with no
\* estimate computed and saveEpicToFile never called, whatever tasks the epic
\* already holds; the estimates are computed and the epic is saved only
\* after "Add another task?" is declined.
C15_NoWorkerFails ==
    /\ NoWorkerOfCategory =>
          /\ pc \in {"catch", "exited"}
          /\ run.error = <<"No", run.category, "developers", "available">>
          /\ run.key = 0
          /\ NotComputed
          /\ ~run.saveCalled
          /\ pc = "exited" => run.exitCode = 1
    /\ run.exitCode = 1 => NoWorkerOfCategory
    /\ (~NotComputed \/ run.saveCalled) =>
          /\ ~run.addingTasks
          /\ pc \in {"calculated", "done"}
    /\ pc = "done" => ~NotComputed /\ run.saveCalled

C15_Witness ==
    /\ pc = "exited"
    /\ run.exitCode = 1
    /\ NoWorkerOfCategory
    /\ Len(tasks) = 1
    /\ NotComputed
    /\ ~run.saveCalled

====
